---- MODULE Spec2Model ----
(***************************************************************************)
(* A model of intelligence/NP-hard: the branch-and-bound minimum vertex    *)
(* cover searcher (minimum_vertex_cover.py) and the process-isolated       *)
(* timeout wrapper for generators (scheduler.py).                          *)
(*                                                                         *)
(* Node indices are 0-based as in the source; TLA+ sequences are 1-based,  *)
(* so the source's search_order[i] is search_order[i + 1] here.            *)
(***************************************************************************)
EXTENDS Integers, Sequences, FiniteSets, TLC

(***************************************************************************)
(* Bounds of the model.                                                    *)
(***************************************************************************)
\* len(nodes) of the searches explored
MaxNodes == 4
\* number of (undirected) input edges of the searches explored
MaxEdges == 4
\* node weights are drawn from 0..MaxWeight
MaxWeight == 1

VARIABLES
    \* ---- the caller's input to search_streamed
    nodes,                    \* nodes[i]: here the weight nodes_weight_func gives nodes[i]
    edges,                    \* edge_index_tuples: a set of pairs <<x, y>>
    quiet,                    \* MinimalVertexCoverSearcher.quiet
    iterOrder,                \* the order in which the build's set/dict iteration meets the nodes
    \* ---- the fields of the MinimalVertexCoverSearcher object
    current_min_count,
    current_min_weight_sum,
    current_solution,
    original_graph,
    search_order,
    weight_func_set,          \* FALSE: self.nodes_weight_func is `constant`; TRUE: the caller's
    \* ---- the generator object returned by search_streamed
    gpc,                      \* created | running | suspended | finished | failed | closed
    stack,                    \* the active calls of _search_streamed, innermost last
    yields,                   \* the triples yielded so far by this generator
    err,                      \* the exception that ended it, or "none"
    \* ---- what the consumer has observed of the earlier generators of this searcher
    seen,                     \* the longest triple sequence an earlier generator yielded
    seenDrained,              \* whether an earlier generator was drained (then `seen` is its sequence)
    \* ---- a second generator of the same searcher, while the consumer is not driving it
    other,                    \* its arguments and its frame: edges, gpc, stack, yields, err
    \* ---- the arguments of timeout_wrapper and the nature of the wrapped generator
    src_items,                \* the number of items the wrapped generator produces
    src_end,                  \* after them it is "exhausted", it "raises" an Exception, it
                              \* "raises_base" (a BaseException that is no Exception), or "hangs"
    rquiet,                   \* the argument quiet
    term_effective,           \* whether SIGTERM ends the worker process, or it survives it
    \* ---- the worker process running _generator_worker
    wpc,                      \* the line the worker stands at
    witem,                    \* the item it holds (0: none)
    produced,                 \* the number of items the wrapped generator has produced
    alive,                    \* process.is_alive()
    sigterm,                  \* SIGTERM was sent to the worker
    sigkill,                  \* SIGKILL was sent to the worker
    \* ---- shared
    channel,                  \* output_queue: the messages put and not yet got
    done_event,
    \* ---- the generator timeout_wrapper returns, and its consumer
    cpc,                      \* the line the caller stands at
    exit_by,                  \* how the loop of lines 51-70 was left
    timed_out,                \* a poll (line 54) ended with queue.Empty
    forwarded,                \* the items yielded to the consumer
    outcome,                  \* how the stream ended for the consumer
    raised                    \* the exception object line 61 raises (NoException: none)

svars == <<nodes, edges, quiet, iterOrder, current_min_count, current_min_weight_sum,
           current_solution, original_graph, search_order, weight_func_set,
           gpc, stack, yields, err, seen, seenDrained>>

rvars == <<src_items, src_end, rquiet, term_effective, wpc, witem, produced, alive, sigterm,
           sigkill, channel, done_event, cpc, exit_by, timed_out, forwarded, outcome, raised>>

vars == <<svars, rvars, other>>

NodeIds == 0 .. (MaxNodes - 1)
Weights == 0 .. MaxWeight

\* float('inf'): larger than every count and every weight sum the model can form
Inf == MaxNodes * (MaxWeight + 1) + 1

\* None
None == <<"None">>

(***************************************************************************)
(* Sequences and ordered dictionaries.  An OrderedDict is a sequence of    *)
(* <<key, value>> pairs in insertion order.                                *)
(***************************************************************************)
Range(s) == {s[k] : k \in 1 .. Len(s)}

Keys(g) == [k \in 1 .. Len(g) |-> g[k][1]]

KeySet(g) == {g[k][1] : k \in 1 .. Len(g)}

Lookup(g, x) == g[CHOOSE k \in 1 .. Len(g) : g[k][1] = x][2]

RECURSIVE SumSeq(_, _)
SumSeq(f, s) == IF s = <<>> THEN 0 ELSE f[Head(s)] + SumSeq(f, Tail(s))

\* Python's order on the tuples (a, b) used as sort keys
TupleLess(k1, k2) == k1[1] < k2[1] \/ (k1[1] = k2[1] /\ k1[2] < k2[2])

\* list.sort / sorted with key[x] the sort key of x: stable
RECURSIVE InsertSorted(_, _, _)
InsertSorted(x, s, key) ==
    IF s = <<>> THEN <<x>>
    ELSE IF TupleLess(key[x], key[Head(s)]) THEN <<x>> \o s
    ELSE <<Head(s)>> \o InsertSorted(x, Tail(s), key)

RECURSIVE StableSort(_, _)
StableSort(s, key) ==
    IF s = <<>> THEN <<>>
    ELSE InsertSorted(s[Len(s)], StableSort(SubSeq(s, 1, Len(s) - 1), key), key)

\* [mutant] the members of S by ascending index, whatever the iteration meets first
RECURSIVE select_ascending(_, _)
select_ascending(order, S) ==
    IF S = {} THEN <<>>
    ELSE LET least == CHOOSE x \in S : \A y \in S : x <= y
         IN  <<least>> \o select_ascending(order, S \ {least})

\* the members of S in the order in which an iteration that follows `order` meets them
SelectInOrder(order, S) == SelectSeq(order, LAMBDA x : x \in S)

(***************************************************************************)
(* minimum_vertex_cover.py                                                 *)
(***************************************************************************)

\* [mutant] indexing that takes no negative index
is_index_from_zero(list, i) == i \in DOMAIN list

\* lines 37, 102: whether nodes[i] is an element of the list nodes (of indices 0..n-1):
\* Python counts a negative index from the end, and raises IndexError beyond either end
is_index(list, i) == i \in DOMAIN list \/ (i < 0 /\ Cardinality(DOMAIN list) + i \in DOMAIN list)

\* lines 37, 102: nodes[i]
node_at(list, i) == IF i >= 0 THEN list[i] ELSE list[Cardinality(DOMAIN list) + i]

\* [mutant] lines 30-31 without the reversed tuples of line 30
edge_set_not_reversed(edge_index_tuples) == edge_index_tuples

\* lines 30-31: the input tuples and their reversals
edge_set(edge_index_tuples) ==
    {<<e[2], e[1]>> : e \in edge_index_tuples} \cup edge_index_tuples

\* lines 32-34, the values of the defaultdict(set)
adjacency(edge_index_tuples, x) ==
    {e[2] : e \in {d \in edge_set(edge_index_tuples) : d[1] = x}}

\* [mutant] line 37 with the degree not negated: minimum degree first
sort_key_min_degree_first(degree, weight) == <<degree, weight>>

\* line 37: the key of the sort, for a node of this degree and weight
sort_key(degree, weight) == <<0 - degree, weight>>

\* lines 25-42.  `order` is the order in which iterating the set of tuples (line 33)
\* and the neighbour sets (line 41) meets the nodes: Python leaves it unspecified.
create_graph_max_degree_first_then_min_weight_first(nodeWeights, edge_index_tuples, order) ==
    LET keys == {e[1] : e \in edge_set(edge_index_tuples)}
        graph_degrees == [x \in keys |-> Cardinality(adjacency(edge_index_tuples, x))]
        sortKey == [x \in keys |-> sort_key(graph_degrees[x], node_at(nodeWeights, x))]
        node_indexes == StableSort(SelectInOrder(order, keys), sortKey)
        node_index_rank == [x \in keys |->
                              <<(CHOOSE k \in 1 .. Len(node_indexes) : node_indexes[k] = x) - 1, 0>>]
    IN  [k \in 1 .. Len(node_indexes) |->
            <<node_indexes[k],
              StableSort(SelectInOrder(order, adjacency(edge_index_tuples, node_indexes[k])),
                         node_index_rank)>>]

\* lines 12-17: the nodes dfs(node, component) appends, given those already visited
RECURSIVE dfs(_, _, _)
RECURSIVE dfsNeighbors(_, _, _)
dfs(adj_table, node, visited) ==
    dfsNeighbors(adj_table,
                 IF node \in KeySet(adj_table) THEN Lookup(adj_table, node) ELSE <<>>,
                 Append(visited, node))
dfsNeighbors(adj_table, neighbors, visited) ==
    IF neighbors = <<>> THEN visited
    ELSE dfsNeighbors(adj_table, Tail(neighbors),
                      IF Head(neighbors) \in Range(visited) THEN visited
                      ELSE dfs(adj_table, Head(neighbors), visited))

\* lines 4-23: the components in the order the generator yields them
RECURSIVE componentsFrom(_, _, _)
componentsFrom(adj_table, k, visited) ==
    IF k > Len(adj_table) THEN <<>>
    ELSE IF adj_table[k][1] \in Range(visited) THEN componentsFrom(adj_table, k + 1, visited)
    ELSE LET after == dfs(adj_table, adj_table[k][1], visited)
         IN  <<SubSeq(after, Len(visited) + 1, Len(after))>>
               \o componentsFrom(adj_table, k + 1, after)

find_connected_components(adj_table) == componentsFrom(adj_table, 1, <<>>)

\* [mutant] lines 49-56 dropping every key that had the node as a neighbour
delete_node_and_neighbours(graph, node) ==
    SelectSeq(graph, LAMBDA kv : kv[1] # node /\ node \notin Range(kv[2]))

\* [mutant] lines 44-58 without the test of line 56: emptied neighbour lists are kept
delete_node_keeps_empty_lists(graph, node) ==
    LET kept == SelectSeq(graph, LAMBDA kv : kv[1] # node)
    IN  [k \in 1 .. Len(kept) |->
            <<kept[k][1], SelectSeq(kept[k][2], LAMBDA neighbor : neighbor # node)>>]

\* lines 44-58
delete_node(graph, node) ==
    LET kept == SelectSeq(graph, LAMBDA kv : kv[1] # node)
        stripped == [k \in 1 .. Len(kept) |->
                       <<kept[k][1], SelectSeq(kept[k][2], LAMBDA neighbor : neighbor # node)>>]
    IN  SelectSeq(stripped, LAMBDA kv : kv[2] # <<>>)

\* lines 60-61
constant(x) == 1

\* [mutant] lines 87-95 without the assertion of line 88
component_check_no_assert(graph, nodeCount) ==
    LET components == find_connected_components(graph)
    IN  IF Len(components) = 0 THEN "RuntimeError"
        ELSE IF Len(components) >= 2 THEN "ValueError"
        ELSE "none"

\* lines 87-95: the exception the component check raises, or "none"
component_check(graph, nodeCount) ==
    IF Len(graph) # nodeCount THEN "AssertionError"
    ELSE LET components == find_connected_components(graph)
         IN  IF Len(components) = 0 THEN "RuntimeError"   \* next() on an exhausted generator, line 90
             ELSE IF Len(components) >= 2 THEN "ValueError"
             ELSE "none"

\* self.nodes_weight_func(self.original_nodes[i]), lines 76, 96, 102
WeightOf(i) == IF weight_func_set THEN node_at(nodes, i) ELSE constant(node_at(nodes, i))

\* line 102
current_sum_of(selected_solution) ==
    SumSeq([i \in Range(selected_solution) |-> WeightOf(i)], selected_solution)

\* one activation of _search_streamed
Frame(i, sel, g) ==
    [current_decision_index |-> i, selected_solution |-> sel, current_graph |-> g,
     pc |-> "entry", current_count |-> 0, current_sum |-> 0]

\* [mutant] lines 104-112 pruning on the count alone
pruned_on_count_alone(current_count, current_sum) ==
    current_count >= current_min_count

\* [mutant] line 109 with > for >=: a tie with BestFound is not pruned
pruned_unless_tie(current_count, current_sum) ==
    \/ current_count > current_min_count
    \/ current_count = current_min_count /\ current_sum > current_min_weight_sum

\* lines 104-112: the two pruning returns
pruned(current_count, current_sum) ==
    \/ current_count > current_min_count
    \/ current_count = current_min_count /\ current_sum >= current_min_weight_sum

\* The calls that follow a return: a caller at line 129 goes on to line 131, a caller
\* at line 131 returns itself.
RECURSIVE Unwind(_)
Unwind(st) ==
    IF st = <<>> THEN <<>>
    ELSE LET top == st[Len(st)]
         IN  IF top.pc = "include"
             THEN Append([st EXCEPT ![Len(st)].pc = "exclude"],
                         Frame(top.current_decision_index + 1, top.selected_solution,
                               top.current_graph))
             ELSE Unwind(SubSeq(st, 1, Len(st) - 1))

Return(st) ==
    LET rest == Unwind(SubSeq(st, 1, Len(st) - 1))
    IN  /\ stack' = rest
        /\ gpc' = IF rest = <<>> THEN "finished" ELSE "running"

\* [mutant] lines 69-76 leaving BestFound as the earlier search left it
init_keeps_best_found ==
    UNCHANGED <<current_min_weight_sum, current_min_count, current_solution>>

\* lines 69-76
init ==
    /\ current_min_weight_sum' = Inf
    /\ current_min_count' = Inf
    /\ current_solution' = None

\* The consumer's first next(): lines 83-97, up to the call of _search_streamed
StartStream ==
    /\ gpc = "created"
    /\ init
    /\ LET graph == create_graph_max_degree_first_then_min_weight_first(nodes, edges, iterOrder)
           failure == IF \E e \in edge_set(edges) : ~is_index(nodes, e[1]) THEN "IndexError"
                      ELSE IF quiet THEN "none"
                      ELSE component_check(graph, Cardinality(DOMAIN nodes))
       IN  /\ original_graph' = IF failure = "IndexError" THEN None ELSE graph
           /\ search_order' = IF failure = "IndexError" THEN None ELSE Keys(graph)
           /\ err' = failure
           /\ IF failure = "none"
              THEN /\ weight_func_set' = TRUE
                   /\ stack' = <<Frame(0, <<>>, graph)>>
                   /\ gpc' = "running"
              ELSE /\ weight_func_set' = FALSE
                   /\ stack' = <<>>
                   /\ gpc' = "failed"
    /\ yields' = <<>>
    /\ UNCHANGED <<nodes, edges, quiet, iterOrder, seen, seenDrained>>
    /\ UNCHANGED <<rvars, other>>

\* [mutant] line 123 one node early
order_exhausted_before_last(current_decision_index) ==
    current_decision_index >= Len(original_graph) - 1

\* line 123: the decision index has passed the last node of the order
order_exhausted(current_decision_index) == current_decision_index >= Len(original_graph)

\* [mutant] line 127 testing the original graph
explores_include_if_original_key(picked_node, current_graph) ==
    picked_node \in KeySet(original_graph) /\ Len(current_graph) = Len(original_graph)

\* line 127: whether the include branch (lines 128-129) is explored for the picked node
explores_include(picked_node, current_graph) == picked_node \in KeySet(current_graph)

\* lines 101-131: the innermost call runs from its entry to its yield, to its
\* recursive call or to its return
SearchStep ==
    /\ gpc = "running"
    /\ stack # <<>>
    /\ LET top == stack[Len(stack)]
           current_count == Len(top.selected_solution)
           current_sum == current_sum_of(top.selected_solution)
       IN  /\ top.pc = "entry"
           /\ IF pruned(current_count, current_sum)
              THEN Return(stack) /\ yields' = yields
              ELSE IF Len(top.current_graph) = 0
              THEN /\ stack' = [stack EXCEPT ![Len(stack)].pc = "yield",
                                             ![Len(stack)].current_count = current_count,
                                             ![Len(stack)].current_sum = current_sum]
                   /\ yields' = Append(yields, <<top.selected_solution, current_count, current_sum>>)
                   /\ gpc' = "suspended"
              ELSE IF order_exhausted(top.current_decision_index)
              THEN Return(stack) /\ yields' = yields
              ELSE LET picked_node == search_order[top.current_decision_index + 1]
                   IN  /\ yields' = yields
                       /\ gpc' = "running"
                       /\ IF explores_include(picked_node, top.current_graph)
                          THEN stack' = Append([stack EXCEPT ![Len(stack)].pc = "include"],
                                               Frame(top.current_decision_index + 1,
                                                     Append(top.selected_solution, picked_node),
                                                     delete_node(top.current_graph, picked_node)))
                          ELSE stack' = Append([stack EXCEPT ![Len(stack)].pc = "exclude"],
                                               Frame(top.current_decision_index + 1,
                                                     top.selected_solution, top.current_graph))
    /\ UNCHANGED <<nodes, edges, quiet, iterOrder, current_min_count, current_min_weight_sum,
                   current_solution, original_graph, search_order, weight_func_set, err,
                   seen, seenDrained>>
    /\ UNCHANGED <<rvars, other>>

\* The consumer's next() after a yield: lines 118-121
ResumeAfterYield ==
    /\ gpc = "suspended"
    /\ LET top == stack[Len(stack)]
       IN  /\ current_min_weight_sum' = top.current_sum
           /\ current_min_count' = top.current_count
           /\ current_solution' = top.selected_solution
    /\ Return(stack)
    /\ UNCHANGED <<nodes, edges, quiet, iterOrder, original_graph, search_order,
                   weight_func_set, yields, err, seen, seenDrained>>
    /\ UNCHANGED <<rvars, other>>

\* The consumer abandons the generator where it stands: before its first next(), or
\* at a yield (close() raises GeneratorExit at line 116; lines 118-120 do not run)
Abandon ==
    /\ gpc \in {"created", "suspended"}
    /\ gpc' = "closed"
    /\ stack' = <<>>
    /\ UNCHANGED <<nodes, edges, quiet, iterOrder, current_min_count, current_min_weight_sum,
                   current_solution, original_graph, search_order, weight_func_set, yields,
                   err, seen, seenDrained>>
    /\ UNCHANGED <<rvars, other>>

\* A fresh call of search_streamed on the same object with the same arguments, once
\* the earlier generator is drained, failed or abandoned (line 82: nothing runs yet)
CallAgain ==
    /\ gpc \in {"finished", "failed", "closed"}
    /\ gpc' = "created"
    /\ stack' = <<>>
    /\ yields' = <<>>
    /\ err' = "none"
    /\ seen' = IF seenDrained \/ Len(yields) <= Len(seen) THEN seen ELSE yields
    /\ seenDrained' = (seenDrained \/ gpc = "finished")
    /\ UNCHANGED <<nodes, edges, quiet, iterOrder, current_min_count, current_min_weight_sum,
                   current_solution, original_graph, search_order, weight_func_set>>
    /\ UNCHANGED <<rvars, other>>

(***************************************************************************)
(* The inputs explored: MaxNodes nodes, each undirected edge given once.   *)
(* The search treats node indices alike, so the nodes are numbered by      *)
(* ascending weight; the iteration order of the build's sets is taken      *)
(* ascending or descending in the node index.                              *)
(***************************************************************************)
NodeWeights(ids) == {f \in [ids -> Weights] : \A i, j \in ids : i < j => f[i] <= f[j]}

Pairs == {e \in NodeIds \X NodeIds : e[1] < e[2]}

EdgeLists == {E \in SUBSET Pairs : Cardinality(E) <= MaxEdges}

Ascending == [k \in 1 .. MaxNodes |-> k - 1]

Descending == [k \in 1 .. MaxNodes |-> MaxNodes - k]

\* the object after __init__ (lines 78-80) and a generator not yet started
Fresh ==
    /\ current_min_weight_sum = Inf
    /\ current_min_count = Inf
    /\ current_solution = None
    /\ original_graph = None
    /\ search_order = None
    /\ weight_func_set = FALSE
    /\ gpc = "created"
    /\ stack = <<>>
    /\ yields = <<>>
    /\ err = "none"
    /\ seen = <<>>
    /\ seenDrained = FALSE

\* no second generator
NoOtherStream == [edges |-> {}, gpc |-> "none", stack |-> <<>>, yields |-> <<>>, err |-> "none"]

\* no exception
NoException == [type |-> "none", wraps |-> "none"]

\* the exception e the wrapped generator raises, caught at line 18
SourceException == [type |-> "Exception", wraps |-> "none"]

\* timeout_wrapper not called
NoRunner ==
    /\ src_items = 0
    /\ src_end = "exhausted"
    /\ rquiet = FALSE
    /\ term_effective = TRUE
    /\ wpc = "none"
    /\ witem = 0
    /\ produced = 0
    /\ alive = FALSE
    /\ sigterm = FALSE
    /\ sigkill = FALSE
    /\ channel = <<>>
    /\ done_event = FALSE
    /\ cpc = "created"
    /\ exit_by = "none"
    /\ timed_out = FALSE
    /\ forwarded = <<>>
    /\ outcome = "none"
    /\ raised = NoException

Init ==
    /\ nodes \in NodeWeights(NodeIds)
    /\ edges \in EdgeLists
    /\ quiet \in BOOLEAN
    /\ iterOrder \in {Ascending, Descending}
    /\ Fresh
    /\ NoRunner
    /\ other = NoOtherStream

Next ==
    \/ StartStream
    \/ SearchStep
    \/ ResumeAfterYield

\* one generator, driven to its end
Spec == Init /\ [][Next]_vars

NextRestart ==
    \/ StartStream
    \/ SearchStep
    \/ ResumeAfterYield
    \/ Abandon
    \/ CallAgain

\* generators of one searcher, one after the other, each drained or abandoned
SpecRestart == Init /\ [][NextRestart]_vars

(***************************************************************************)
(* What the claims speak of, stated on the caller's input alone.           *)
(***************************************************************************)
Last(s) == s[Len(s)]

IsPrefix(s, t) == Len(s) <= Len(t) /\ SubSeq(t, 1, Len(s)) = s

\* the nodes that appear in at least one edge
Touched == {e[1] : e \in edges} \cup {e[2] : e \in edges}

Neighbours(x) == {e[2] : e \in {d \in edges : d[1] = x}} \cup {e[1] : e \in {d \in edges : d[2] = x}}

Degree(x) == Cardinality(Neighbours(x) \ {x}) + (IF x \in Neighbours(x) THEN 1 ELSE 0)

RECURSIVE Reachable(_)
Reachable(S) ==
    LET T == S \cup UNION {Neighbours(x) : x \in S}
    IN  IF T = S THEN S ELSE Reachable(T)

\* the edges form one connected component
EdgeConnected == edges # {} /\ Reachable({CHOOSE x \in Touched : TRUE}) = Touched

IsCover(S) == \A e \in edges : e[1] \in S \/ e[2] \in S

RECURSIVE SetWeight(_)
SetWeight(S) ==
    IF S = {} THEN 0
    ELSE LET x == CHOOSE y \in S : TRUE IN nodes[x] + SetWeight(S \ {x})

Covers == {S \in SUBSET (DOMAIN nodes) : IsCover(S)}

BruteMinCount == CHOOSE c \in 0 .. Cardinality(DOMAIN nodes) :
    /\ \E S \in Covers : Cardinality(S) = c
    /\ \A S \in Covers : Cardinality(S) >= c

BruteMinWeight ==
    LET best == {S \in Covers : Cardinality(S) = BruteMinCount}
    IN  CHOOSE w \in {SetWeight(S) : S \in best} : \A S \in best : SetWeight(S) >= w

\* (count, weightSum) of a triple, compared lexicographically
Better(t, u) == t[2] < u[2] \/ (t[2] = u[2] /\ t[3] < u[3])

NoRepeats(s) == \A k, l \in 1 .. Len(s) : k # l => s[k] # s[l]

ValidTriple(t) ==
    /\ IsCover(Range(t[1]))
    /\ NoRepeats(t[1])
    /\ t[2] = Len(t[1])
    /\ t[3] = SetWeight(Range(t[1]))

(***************************************************************************)
(* C1.  For a simple connected graph with at least one edge and            *)
(* non-negative weights, the last triple of a drained stream is optimal    *)
(* under (count, weightSum): its count is the minimum size of a vertex     *)
(* cover and its weightSum the minimum weight among the covers of that     *)
(* size, as exhaustive search over all node subsets finds them.            *)
(***************************************************************************)
C1_LastTripleOptimal ==
    (gpc = "finished" /\ EdgeConnected) =>
        /\ yields # <<>>
        /\ Last(yields)[2] = BruteMinCount
        /\ Last(yields)[3] = BruteMinWeight

\* a drained stream on a connected graph whose last triple improved on an earlier
\* one of the same count by weight alone
C1_Witness ==
    /\ gpc = "finished"
    /\ EdgeConnected
    /\ Len(yields) >= 2
    /\ yields[Len(yields) - 1][2] = Last(yields)[2]
    /\ Last(yields)[3] = BruteMinWeight

(***************************************************************************)
(* C2.  Every triple a stream yields, intermediate or final, on a          *)
(* connected or a disconnected graph, is a valid vertex cover: each edge   *)
(* has an endpoint in cover, cover holds no node twice, count = |cover|    *)
(* and weightSum is the sum of the weights of the nodes of cover.          *)
(***************************************************************************)
C2_EveryTripleValidCover == \A k \in 1 .. Len(yields) : ValidTriple(yields[k])

\* a triple yielded, with the component check disabled, on a graph of two components
C2_Witness ==
    /\ yields # <<>>
    /\ quiet
    /\ edges # {}
    /\ ~EdgeConnected

\* the triples of one stream, and the threshold they tighten
YieldsStrictlyImprove ==
    \A k \in 1 .. Len(yields) : \A l \in 1 .. Len(yields) :
        k < l => Better(yields[l], yields[k])

BestFoundTightens ==
    <<current_min_count, current_min_weight_sum>>' # <<current_min_count, current_min_weight_sum>>
        => \/ current_min_count' < current_min_count
           \/ /\ current_min_count' = current_min_count
              /\ current_min_weight_sum' < current_min_weight_sum

(***************************************************************************)
(* C3.  Within one stream the yielded (count, weightSum) pairs decrease    *)
(* strictly in lexicographic order, and BestFound (current_min_count,      *)
(* current_min_weight_sum) only ever changes to a strictly smaller pair.   *)
(***************************************************************************)
C3_StrictlyImproving == [](YieldsStrictlyImprove) /\ [][BestFoundTightens]_vars

\* BestFound has been tightened twice: two triples were yielded and taken
C3_Witness ==
    /\ Len(yields) >= 2
    /\ current_min_count = Last(yields)[2]
    /\ current_min_weight_sum = Last(yields)[3]

(***************************************************************************)
(* C4.  A fresh call on identical input yields the identical sequence of   *)
(* triples, also on a searcher whose earlier stream was drained or was     *)
(* abandoned after any number of yields: what the new stream has yielded   *)
(* agrees with what every earlier stream yielded, and a drained stream     *)
(* equals an earlier drained one.                                          *)
(***************************************************************************)
C4_RerunIdentical ==
    /\ IsPrefix(yields, seen) \/ IsPrefix(seen, yields)
    /\ seenDrained => IsPrefix(yields, seen)
    /\ (seenDrained /\ gpc = "finished") => yields = seen
    /\ (seenDrained /\ gpc = "failed") => FALSE

\* a second stream drained on a searcher that holds the BestFound of a drained first
\* stream of two triples or more
C4_Witness ==
    /\ seenDrained
    /\ gpc = "finished"
    /\ Len(yields) >= 2
    /\ yields = seen

(***************************************************************************)
(* The builder alone, on edge lists that hold self-loops, both             *)
(* orientations of an edge and any iteration order of the sets.            *)
(***************************************************************************)
\* len(nodes) of the builds explored
BuildNodes == 3
\* number of distinct tuples in the edge lists of the builds explored
BuildEdges == 3

BuildIds == 0 .. (BuildNodes - 1)

IterationOrders(S) ==
    {p \in [1 .. Cardinality(S) -> S] : \A k, l \in 1 .. Cardinality(S) : k # l => p[k] # p[l]}

InitBuild ==
    /\ nodes \in NodeWeights(BuildIds)
    /\ edges \in {E \in SUBSET (BuildIds \X BuildIds) : Cardinality(E) <= BuildEdges}
    /\ quiet = TRUE
    /\ iterOrder \in IterationOrders(BuildIds)
    /\ Fresh
    /\ NoRunner
    /\ other = NoOtherStream

\* lines 85-86 alone: the graph and the order a call of search_streamed builds
BuildGraph ==
    /\ gpc = "created"
    /\ original_graph' = create_graph_max_degree_first_then_min_weight_first(nodes, edges, iterOrder)
    /\ search_order' = Keys(original_graph')
    /\ gpc' = "built"
    /\ UNCHANGED <<nodes, edges, quiet, iterOrder, current_min_count, current_min_weight_sum,
                   current_solution, weight_func_set, stack, yields, err, seen, seenDrained>>
    /\ UNCHANGED <<rvars, other>>

NextBuild == BuildGraph

SpecBuild == InitBuild /\ [][NextBuild]_vars

(***************************************************************************)
(* C5.  The adjacency the builder returns is symmetric and complete: for   *)
(* every input edge (u, v), v is in graph[u] and u is in graph[v]; every   *)
(* node an edge references is a key with a non-empty neighbour list        *)
(* without duplicates; no neighbour relation is present that no input      *)
(* edge gives.                                                             *)
(***************************************************************************)
C5_AdjacencySymmetricComplete ==
    gpc = "built" =>
        /\ \A e \in edges :
              /\ e[1] \in KeySet(original_graph) /\ e[2] \in KeySet(original_graph)
              /\ e[2] \in Range(Lookup(original_graph, e[1]))
              /\ e[1] \in Range(Lookup(original_graph, e[2]))
        /\ NoRepeats(Keys(original_graph))
        /\ \A k \in 1 .. Len(original_graph) :
              /\ original_graph[k][2] # <<>>
              /\ NoRepeats(original_graph[k][2])
              /\ \A y \in Range(original_graph[k][2]) :
                    <<original_graph[k][1], y>> \in edges \/ <<y, original_graph[k][1]>> \in edges

\* a graph built from a list that gives one edge in one orientation only, beside a self-loop
C5_Witness ==
    /\ gpc = "built"
    /\ \E e \in edges : e[1] # e[2] /\ <<e[2], e[1]>> \notin edges
    /\ \E e \in edges : e[1] = e[2]
    /\ Len(original_graph) >= 2

(***************************************************************************)
(* C6.  The visitation order (the key order of the built adjacency, copied *)
(* into search_order) is a permutation of exactly the nodes that appear in *)
(* an edge, sorted by descending degree in the original graph and, among   *)
(* equal degrees, by ascending weight; and decision step i of the search   *)
(* inspects the i-th node of this order whatever has been deleted from the *)
(* current graph: the call at depth i has decision index i, and its        *)
(* include branch adds exactly that node, taken if and only if the node is *)
(* still a key of the current graph.                                       *)
(***************************************************************************)
OrderIsSortedPermutation ==
    /\ Range(search_order) = Touched
    /\ Len(search_order) = Cardinality(Touched)
    /\ search_order = Keys(original_graph)
    /\ \A k, l \in 1 .. Len(search_order) :
          k < l => \/ Degree(search_order[k]) > Degree(search_order[l])
                   \/ /\ Degree(search_order[k]) = Degree(search_order[l])
                      /\ nodes[search_order[k]] <= nodes[search_order[l]]

StepInspectsOrder ==
    \A k \in 1 .. Len(stack) :
        /\ stack[k].current_decision_index = k - 1
        /\ k < Len(stack) =>
              LET ith == search_order[k]
              IN  IF stack[k].pc = "include"
                  THEN /\ ith \in KeySet(stack[k].current_graph)
                       /\ stack[k + 1].selected_solution = Append(stack[k].selected_solution, ith)
                  ELSE /\ stack[k].pc = "exclude"
                       /\ stack[k + 1].selected_solution = stack[k].selected_solution
                       /\ stack[k + 1].current_graph = stack[k].current_graph

C6_VisitationOrder ==
    gpc \in {"running", "suspended", "finished", "failed"} =>
        OrderIsSortedPermutation /\ StepInspectsOrder

\* a step that inspects a node of the order which an earlier include has already
\* removed from the current graph, in an order that degree and weight both decide
C6_Witness ==
    /\ gpc = "running"
    /\ \E k \in 1 .. (Len(stack) - 1) :
          /\ stack[k].pc = "exclude"
          /\ search_order[k] \notin KeySet(stack[k].current_graph)
          /\ stack[k].current_graph # <<>>
    /\ \E k, l \in 1 .. Len(search_order) :
          Degree(search_order[k]) > Degree(search_order[l])
    /\ \E k, l \in 1 .. Len(search_order) :
          /\ Degree(search_order[k]) = Degree(search_order[l])
          /\ nodes[search_order[k]] < nodes[search_order[l]]

(***************************************************************************)
(* C7.  With the component check enabled and at least one edge, the stream *)
(* fails before yielding any triple if and only if the graph has more than *)
(* one connected component or some node of `nodes` appears in no edge;     *)
(* otherwise the check passes and the search proceeds.                     *)
(***************************************************************************)
C7_ComponentCheckExact ==
    (gpc # "created" /\ ~quiet /\ edges # {}) =>
        /\ (gpc = "failed") <=> (~EdgeConnected \/ Cardinality(Touched) # Cardinality(DOMAIN nodes))
        /\ gpc = "failed" => (yields = <<>> /\ stack = <<>>)
        /\ gpc = "failed" => err \in {"AssertionError", "ValueError"}

\* the check refuses a graph of two components in which every node has an edge
C7_Witness ==
    /\ gpc = "failed"
    /\ err = "ValueError"
    /\ Touched = DOMAIN nodes
    /\ yields = <<>>

(***************************************************************************)
(* scheduler.py: timeout_wrapper and its worker process.                   *)
(*                                                                         *)
(* The wrapped generator produces the items 1, 2, ..., src_items and then  *)
(* is exhausted, raises, or hangs.  A put appends to the channel and a get *)
(* takes its head.  Time is not measured: a poll of an empty channel may   *)
(* time out at any moment.  terminate() and kill() send a signal and       *)
(* return; the process ends when the signal takes effect, which join()     *)
(* awaits and which nothing awaits after kill().                           *)
(***************************************************************************)
\* the largest number of items of the wrapped generators explored
MaxItems == 2

\* [mutant] line 14 with the test inverted
worker_breaks_unless_cancelled(flag) == ~flag

\* line 14: whether the worker leaves its loop, holding an item, given done_event
worker_breaks(flag) == flag

\* [mutant] line 18 catching nothing: every failure of the source goes to the finally block
after_source_ends_uncaught(end) ==
    IF end = "exhausted" THEN "put_done" ELSE "put_finished"

\* lines 13, 17-22: where the worker goes when next() does not give an item: the loop ends
\* (line 17), an Exception is caught (lines 18-19), or anything else that is raised
\* (a BaseException that is no Exception, such as SystemExit) only runs the finally block
after_source_ends(end) ==
    IF end = "exhausted" THEN "put_done"
    ELSE IF end = "raises" THEN "put_error"
    ELSE "put_finished"

\* line 13: next() on the wrapped generator
WorkerNext ==
    /\ alive /\ wpc = "for"
    /\ IF produced < src_items
       THEN /\ produced' = produced + 1
            /\ witem' = produced + 1
            /\ wpc' = "check"
       ELSE /\ src_end # "hangs"
            /\ wpc' = after_source_ends(src_end)
            /\ UNCHANGED <<produced, witem>>
    /\ UNCHANGED <<src_items, src_end, rquiet, term_effective, alive, sigterm, sigkill,
                   channel, done_event, cpc, exit_by, timed_out, forwarded, outcome, raised>>
    /\ UNCHANGED <<svars, other>>

\* lines 14-15
WorkerCheck ==
    /\ alive /\ wpc = "check"
    /\ IF worker_breaks(done_event)
       THEN wpc' = "put_done" /\ witem' = 0
       ELSE wpc' = "put_item" /\ witem' = witem
    /\ UNCHANGED <<src_items, src_end, rquiet, term_effective, produced, alive, sigterm,
                   sigkill, channel, done_event, cpc, exit_by, timed_out, forwarded,
                   outcome, raised>>
    /\ UNCHANGED <<svars, other>>

\* [mutant] line 39 as mp.Queue(maxsize=1): put blocks while a message is pending
put_blocks_when_full(q) == Len(q) >= 1

\* lines 39, 16: whether put blocks on the queue q; output_queue is mp.Queue() with no
\* maxsize, so put never waits for room
put_blocks(q) == FALSE

\* lines 16, 17, 19, 22: output_queue.put.  A message reaches the pipe of the queue in
\* one write, or, an item too large for that, in several: "writing" is the worker with
\* the head of its item in the pipe and the rest still to be written
WorkerPut ==
    /\ alive /\ wpc \in {"put_item", "writing", "put_done", "put_error", "put_finished"}
    /\ ~put_blocks(channel)
    /\ \/ /\ wpc \in {"put_item", "writing"}
          /\ channel' = Append(channel, <<"item", witem>>)
          /\ wpc' = "for"
          /\ witem' = 0
       \/ /\ wpc = "put_item"
          /\ wpc' = "writing"
          /\ UNCHANGED <<channel, witem>>
       \/ /\ wpc = "put_done"
          /\ channel' = Append(channel, <<"done", 0>>)
          /\ wpc' = "put_finished"
          /\ witem' = 0
       \/ /\ wpc = "put_error"
          /\ channel' = Append(channel, <<"error", SourceException>>)
          /\ wpc' = "put_finished"
          /\ witem' = 0
       \/ /\ wpc = "put_finished"
          /\ channel' = Append(channel, <<"finished", 0>>)
          /\ wpc' = "return"
          /\ witem' = 0
    /\ UNCHANGED <<src_items, src_end, rquiet, term_effective, produced, alive, sigterm,
                   sigkill, done_event, cpc, exit_by, timed_out, forwarded, outcome, raised>>
    /\ UNCHANGED <<svars, other>>

\* the worker function has returned: the process exits
WorkerExit ==
    /\ alive /\ wpc = "return"
    /\ alive' = FALSE
    /\ wpc' = "exited"
    /\ UNCHANGED <<src_items, src_end, rquiet, term_effective, witem, produced, sigterm,
                   sigkill, channel, done_event, cpc, exit_by, timed_out, forwarded,
                   outcome, raised>>
    /\ UNCHANGED <<svars, other>>

\* what the pipe of the queue q holds once the process has died at line `at`: a process
\* that dies while writing leaves the head of a message that nobody will complete
pipe_after_death(q, at) ==
    IF at = "writing" THEN Append(q, <<"partial", 0>>) ELSE q

\* a signal sent by line 75 or line 78 ends the process
WorkerSignalled ==
    /\ alive
    /\ (sigterm /\ term_effective) \/ sigkill
    /\ alive' = FALSE
    /\ wpc' = "killed"
    /\ witem' = 0
    /\ channel' = pipe_after_death(channel, wpc)
    /\ UNCHANGED <<src_items, src_end, rquiet, term_effective, produced, sigterm, sigkill,
                   done_event, cpc, exit_by, timed_out, forwarded, outcome, raised>>
    /\ UNCHANGED <<svars, other>>

\* The consumer's first next(): lines 39-48
CallerStart ==
    /\ cpc = "created"
    /\ alive' = TRUE
    /\ wpc' = "for"
    /\ cpc' = "while"
    /\ UNCHANGED <<src_items, src_end, rquiet, term_effective, witem, produced, sigterm,
                   sigkill, channel, done_event, exit_by, timed_out, forwarded, outcome, raised>>
    /\ UNCHANGED <<svars, other>>

\* line 51
CallerWhile ==
    /\ cpc = "while"
    /\ IF alive \/ channel # <<>>
       THEN cpc' = "get" /\ exit_by' = exit_by
       ELSE cpc' = "set" /\ exit_by' = "loop_end"
    /\ UNCHANGED <<src_items, src_end, rquiet, term_effective, wpc, witem, produced, alive,
                   sigterm, sigkill, channel, done_event, timed_out, forwarded, outcome, raised>>
    /\ UNCHANGED <<svars, other>>

\* lines 54-63: a message arrives within the timeout
CallerGet ==
    /\ cpc = "get"
    /\ channel # <<>>
    /\ Head(channel)[1] # "partial"
    /\ LET msg_type == Head(channel)[1]
           content == Head(channel)[2]
       IN  IF msg_type = "item"
           THEN /\ forwarded' = Append(forwarded, content)
                /\ cpc' = "yield"
                /\ exit_by' = exit_by
           ELSE /\ forwarded' = forwarded
                /\ cpc' = "set"
                /\ exit_by' = msg_type
    /\ raised' = (IF Head(channel)[1] = "error" THEN Head(channel)[2] ELSE raised)
    /\ channel' = Tail(channel)
    /\ UNCHANGED <<src_items, src_end, rquiet, term_effective, wpc, witem, produced, alive,
                   sigterm, sigkill, done_event, timed_out, outcome>>
    /\ UNCHANGED <<svars, other>>

\* [mutant] lines 67-70 with `continue` for `break`
on_timeout_keeps_polling(q) == IF q THEN "continue" ELSE "raise"

\* lines 67-70: what a poll that timed out does, given quiet
on_timeout(q) == IF q THEN "break" ELSE "raise"

\* lines 54, 65-70: no message arrives within the timeout
CallerGetTimeout ==
    /\ cpc = "get"
    /\ channel = <<>>
    /\ ~(alive /\ wpc = "writing")
    /\ timed_out' = TRUE
    /\ IF on_timeout(rquiet) = "continue"
       THEN cpc' = "while" /\ exit_by' = exit_by
       ELSE /\ cpc' = "set"
            /\ exit_by' = IF on_timeout(rquiet) = "break" THEN "timeout_break" ELSE "timeout_raise"
    /\ UNCHANGED <<src_items, src_end, rquiet, term_effective, wpc, witem, produced, alive,
                   sigterm, sigkill, channel, done_event, forwarded, outcome, raised>>
    /\ UNCHANGED <<svars, other>>

\* line 57: the consumer asks for the next item
ConsumerNext ==
    /\ cpc = "yield"
    /\ cpc' = "while"
    /\ UNCHANGED <<src_items, src_end, rquiet, term_effective, wpc, witem, produced, alive,
                   sigterm, sigkill, channel, done_event, exit_by, timed_out, forwarded,
                   outcome, raised>>
    /\ UNCHANGED <<svars, other>>

\* line 57: the consumer abandons the stream (close() raises GeneratorExit at the yield)
ConsumerClose ==
    /\ cpc = "yield"
    /\ cpc' = "set"
    /\ exit_by' = "close"
    /\ UNCHANGED <<src_items, src_end, rquiet, term_effective, wpc, witem, produced, alive,
                   sigterm, sigkill, channel, done_event, timed_out, forwarded, outcome, raised>>
    /\ UNCHANGED <<svars, other>>

\* line 74
TeardownSet ==
    /\ cpc = "set"
    /\ done_event' = TRUE
    /\ cpc' = "terminate"
    /\ UNCHANGED <<src_items, src_end, rquiet, term_effective, wpc, witem, produced, alive,
                   sigterm, sigkill, channel, exit_by, timed_out, forwarded, outcome, raised>>
    /\ UNCHANGED <<svars, other>>

\* line 75
TeardownTerminate ==
    /\ cpc = "terminate"
    /\ sigterm' = TRUE
    /\ cpc' = "join"
    /\ UNCHANGED <<src_items, src_end, rquiet, term_effective, wpc, witem, produced, alive,
                   sigkill, channel, done_event, exit_by, timed_out, forwarded, outcome, raised>>
    /\ UNCHANGED <<svars, other>>

\* line 76: join returns when the process has ended, or after 1.0 s if it has not: a
\* process that SIGTERM ends has ended by then
TeardownJoin ==
    /\ cpc = "join"
    /\ ~alive \/ ~term_effective
    /\ cpc' = "is_alive"
    /\ UNCHANGED <<src_items, src_end, rquiet, term_effective, wpc, witem, produced, alive,
                   sigterm, sigkill, channel, done_event, exit_by, timed_out, forwarded,
                   outcome, raised>>
    /\ UNCHANGED <<svars, other>>

\* [mutant] line 78 without the test of line 77
kill_sent_always(still_alive) == TRUE

\* lines 77-78: whether process.kill() is called, given process.is_alive()
kill_sent(still_alive) == still_alive

\* lines 77-78
TeardownKill ==
    /\ cpc = "is_alive"
    /\ sigkill' = (sigkill \/ kill_sent(alive))
    /\ cpc' = "drain"
    /\ UNCHANGED <<src_items, src_end, rquiet, term_effective, wpc, witem, produced, alive,
                   sigterm, channel, done_event, exit_by, timed_out, forwarded, outcome, raised>>
    /\ UNCHANGED <<svars, other>>

\* how the generator ends for the consumer once the finally block is through
outcome_of(left_by) ==
    IF left_by = "timeout_raise" THEN "TimeoutException"     \* line 70
    ELSE IF left_by = "error" THEN "worker's exception"      \* line 61: raise content
    ELSE IF left_by = "close" THEN "closed"                  \* GeneratorExit
    ELSE "StopIteration"                                     \* lines 51, 59, 63, 68

\* lines 81, 83: output_queue.empty() is false as soon as the pipe holds any byte, and
\* get_nowait() then reads a whole message: it waits for the rest of a message whose head
\* is in the pipe, being written or left by a writer that died (no timeout applies to it)
recv_blocks(q, being_written) ==
    IF q = <<>> THEN being_written ELSE Head(q)[1] = "partial"

\* lines 81-85
TeardownDrain ==
    /\ cpc = "drain"
    /\ ~recv_blocks(channel, alive /\ wpc = "writing")
    /\ IF channel # <<>>
       THEN /\ channel' = Tail(channel)
            /\ UNCHANGED <<cpc, outcome>>
       ELSE /\ cpc' = "ended"
            /\ outcome' = outcome_of(exit_by)
            /\ channel' = channel
    /\ UNCHANGED <<src_items, src_end, rquiet, term_effective, wpc, witem, produced, alive,
                   sigterm, sigkill, done_event, exit_by, timed_out, forwarded, raised>>
    /\ UNCHANGED <<svars, other>>

InitRunner ==
    /\ src_items \in 0 .. MaxItems
    /\ src_end \in {"exhausted", "raises", "raises_base", "hangs"}
    /\ rquiet \in BOOLEAN
    /\ term_effective \in BOOLEAN
    /\ wpc = "none"
    /\ witem = 0
    /\ produced = 0
    /\ alive = FALSE
    /\ sigterm = FALSE
    /\ sigkill = FALSE
    /\ channel = <<>>
    /\ done_event = FALSE
    /\ cpc = "created"
    /\ exit_by = "none"
    /\ timed_out = FALSE
    /\ forwarded = <<>>
    /\ outcome = "none"
    /\ raised = NoException
    /\ nodes = <<>>
    /\ edges = {}
    /\ quiet = TRUE
    /\ iterOrder = <<>>
    /\ Fresh
    /\ other = NoOtherStream

NextRunner ==
    \/ WorkerNext
    \/ WorkerCheck
    \/ WorkerPut
    \/ WorkerExit
    \/ WorkerSignalled
    \/ CallerStart
    \/ CallerWhile
    \/ CallerGet
    \/ CallerGetTimeout
    \/ ConsumerNext
    \/ ConsumerClose
    \/ TeardownSet
    \/ TeardownTerminate
    \/ TeardownJoin
    \/ TeardownKill
    \/ TeardownDrain

SpecRunner == InitRunner /\ [][NextRunner]_vars

\* the items among the messages of a channel, in order
ItemsOf(ch) ==
    LET items == SelectSeq(ch, LAMBDA msg : msg[1] = "item")
    IN  [k \in 1 .. Len(items) |-> items[k][2]]

\* the caller is past the loop of lines 51-70
InTeardown == cpc \in {"set", "terminate", "join", "is_alive", "drain", "ended"}

\* what a poll that timed out leads to
TimeoutEndsStream ==
    /\ timed_out => InTeardown
    /\ (timed_out /\ cpc = "ended") =>
          outcome = IF rquiet THEN outcome_of("done") ELSE "TimeoutException"
    /\ (timed_out /\ cpc = "ended" /\ rquiet) => outcome = "StopIteration"
    /\ (src_items = 0 /\ src_end = "hangs") =>
          /\ forwarded = <<>>
          /\ cpc = "ended" => timed_out

NothingForwardedAfterTimeout == timed_out => forwarded' = forwarded

(***************************************************************************)
(* C8.  When a poll of the channel receives no message within the timeout, *)
(* the stream ends at that poll: with quiet=False by raising the timeout   *)
(* error, with quiet=True without error, as a natural completion does; no  *)
(* further item is forwarded; and for a source that never produces, the    *)
(* consumer receives zero items.                                           *)
(***************************************************************************)
C8_TimeoutEndsStream == [](TimeoutEndsStream) /\ [][NothingForwardedAfterTimeout]_vars

\* a poll timed out under the raise policy after an item was forwarded, the stream
\* ended with the timeout error, and an item produced meanwhile was never forwarded
C8_Witness ==
    /\ timed_out
    /\ cpc = "ended"
    /\ ~rquiet
    /\ outcome = "TimeoutException"
    /\ forwarded # <<>>
    /\ produced > Len(forwarded)

(***************************************************************************)
(* C9.  On every exit path of timeout_wrapper teardown runs, and when      *)
(* teardown has finished the worker is no longer alive and the channel     *)
(* holds no pending message.                                               *)
(***************************************************************************)
C9_TeardownLeavesNothing ==
    /\ exit_by # "none" => InTeardown
    /\ cpc = "ended" => (~alive /\ channel = <<>>)

(***************************************************************************)
(* C10.  Under every interleaving of worker and caller the items forwarded *)
(* to the consumer are a prefix of the items the source produced, in       *)
(* order, none repeated or skipped; and as long as cancellation has not    *)
(* been signalled no produced item is lost: each is forwarded, pending in  *)
(* the channel or in the worker's hands.                                   *)
(***************************************************************************)
C10_ForwardedPrefixOfProduced ==
    /\ Len(forwarded) <= produced
    /\ \A k \in 1 .. Len(forwarded) : forwarded[k] = k
    /\ ~done_event =>
          forwarded \o ItemsOf(channel) \o (IF witem = 0 THEN <<>> ELSE <<witem>>)
              = [k \in 1 .. produced |-> k]

\* the consumer abandoned the stream after the first item; a later item, produced by
\* then, was dropped after cancellation
C10_Witness ==
    /\ cpc = "ended"
    /\ exit_by = "close"
    /\ Len(forwarded) = 1
    /\ produced >= 2
    /\ done_event

\* ---------------------------------------------------------------------------------------
\* the end of the stream when no poll times out and the consumer does not close it

\* all the items of the source, in production order
AllItems == [k \in 1 .. src_items |-> k]

\* the stream has ended, no poll timed out, and the consumer did not close it
EndedUndisturbed == cpc = "ended" /\ ~timed_out /\ exit_by # "close"

\* an error of a kind of its own that wraps the exception e
WorkerError(e) == [type |-> "WorkerError", wraps |-> e.type]

AtPut == alive /\ wpc \in {"put_item", "put_done", "put_error", "put_finished"}

\* the messages a run of the worker puts at most: every item, 'done' or 'error', 'finished'
MessagesOfRun == src_items + 2

ClaimedCapacity == MaxItems + 1

FairRunner ==
    /\ WF_vars(WorkerNext)
    /\ WF_vars(WorkerCheck)
    /\ WF_vars(WorkerPut)
    /\ WF_vars(WorkerExit)
    /\ WF_vars(WorkerSignalled)
    /\ WF_vars(CallerWhile)
    /\ WF_vars(CallerGet \/ CallerGetTimeout)
    /\ WF_vars(ConsumerNext \/ ConsumerClose)
    /\ WF_vars(TeardownSet)
    /\ WF_vars(TeardownTerminate)
    /\ WF_vars(TeardownJoin)
    /\ WF_vars(TeardownKill)
    /\ WF_vars(TeardownDrain)

SpecRunnerFair == InitRunner /\ [][NextRunner]_vars /\ FairRunner

\* C13: every started run of timeout_wrapper eventually reaches the end of its teardown,
\* whatever the wrapped generator does
C13_EventuallyTornDown == (cpc # "created") ~> (cpc = "ended")

\* ---------------------------------------------------------------------------------------
\* the order of teardown

\* the steps of the finally block: flag, SIGTERM, wait, SIGKILL, drain.  SIGTERM follows
\* the flag with nothing in between and whatever the worker does
TeardownOrder ==
    /\ cpc \in {"terminate", "join", "is_alive", "drain", "ended"} <=> done_event
    /\ cpc \in {"join", "is_alive", "drain", "ended"} <=> sigterm
    /\ sigkill => cpc \in {"drain", "ended"}
    /\ cpc \in {"set", "terminate", "join", "is_alive"} => outcome = "none"

\* SIGKILL is sent by the step after the wait only, and only to a process still alive
KillOnlyIfStillAlive ==
    /\ (sigkill' /\ ~sigkill) => (cpc = "is_alive" /\ alive)
    /\ (cpc = "is_alive" /\ cpc' = "drain") => (sigkill' <=> alive)

ArcsOf(g) == UNION {{<<g[k][1], n>> : n \in Range(g[k][2])} : k \in 1 .. Len(g)}

\* the original edges, in both directions, that have no endpoint in the candidate
UncoveredArcs(candidate) ==
    {e \in edge_set(edges) : e[1] \notin Range(candidate) /\ e[2] \notin Range(candidate)}

GraphIsRestriction(candidate, g) ==
    /\ ArcsOf(g) = UncoveredArcs(candidate)
    /\ KeySet(g) = {e[1] : e \in UncoveredArcs(candidate)}
    /\ \A k \in 1 .. Len(g) : g[k][2] # <<>> /\ NoRepeats(g[k][2])
    /\ NoRepeats(Keys(g))
    /\ (Len(g) = 0) <=> IsCover(Range(candidate))

\* C15: at every call of _search_streamed(i, candidate, graph) the graph is the original
\* graph restricted to the edges with no endpoint in candidate: exactly those edges, in
\* both directions, its keys exactly their endpoints, no neighbour list empty; so it is
\* empty if and only if candidate covers every original edge
C15_GraphIsRestriction ==
    \A d \in 1 .. Len(stack) :
        GraphIsRestriction(stack[d].selected_solution, stack[d].current_graph)

\* a call whose candidate is not empty and not yet a cover, and whose graph has lost a
\* key that is not in the candidate (its neighbour list was emptied)
C15_Witness ==
    \E d \in 1 .. Len(stack) :
        /\ stack[d].selected_solution # <<>>
        /\ stack[d].current_graph # <<>>
        /\ \E x \in Touched : x \notin Range(stack[d].selected_solution)
                               /\ x \notin KeySet(stack[d].current_graph)

\* ---------------------------------------------------------------------------------------
\* the first triple of a stream

\* x has an edge to a node that is not in the candidate (x itself is not in it)
HasUncoveredEdge(x, candidate) ==
    \E e \in edges : \/ e[1] = x /\ e[2] \notin Range(candidate)
                     \/ e[2] = x /\ e[1] \notin Range(candidate)

\* the nodes of the visitation order, from its k-th on, that still have an uncovered
\* edge when their turn comes, each added to the candidate in turn
RECURSIVE GreedyFrom(_, _)
GreedyFrom(k, candidate) ==
    IF k > Len(search_order) THEN candidate
    ELSE IF HasUncoveredEdge(search_order[k], candidate)
         THEN GreedyFrom(k + 1, Append(candidate, search_order[k]))
         ELSE GreedyFrom(k + 1, candidate)

GreedyCover == GreedyFrom(1, <<>>)

\* C16: whenever the builder and the check succeed the stream yields at least one
\* triple, and its first triple is the greedy cover with its count and weight sum
C16_FirstYieldGreedy ==
    /\ yields # <<>> =>
           /\ yields[1][1] = GreedyCover
           /\ yields[1][2] = Len(GreedyCover)
           /\ yields[1][3] = SetWeight(Range(GreedyCover))
    /\ gpc = "finished" => yields # <<>>
    /\ (gpc \in {"running", "suspended", "finished"}) <=> (gpc # "created" /\ err = "none")

\* a first triple that skipped a node of the order and takes more nodes than the
\* optimum: greedy, and improved on later in the stream
C16_Witness ==
    /\ Len(yields) >= 2
    /\ yields[1][2] > Last(yields)[2]
    /\ \E k \in 1 .. Len(search_order) : search_order[k] \notin Range(yields[1][1])

\* ---------------------------------------------------------------------------------------
\* termination of a search

\* the steps a call at decision index i can take at most, itself and the calls below
\* it, for an order of n nodes: its own step, its yield and resumption or its two calls
RECURSIVE StepsOfCall(_, _)
StepsOfCall(i, n) == IF i >= n THEN 2 ELSE 2 + 2 * StepsOfCall(i + 1, n)

\* the steps a call on the stack still has to take or to start: a call at line 129 has
\* its second call (line 131) to make, a call at its yield (line 116) is to be resumed
StepsLeftOf(frame, n) ==
    IF frame.pc = "entry" THEN StepsOfCall(frame.current_decision_index, n)
    ELSE IF frame.pc = "include" THEN StepsOfCall(frame.current_decision_index + 1, n)
    ELSE IF frame.pc = "yield" THEN 1
    ELSE 0

RECURSIVE StepsLeftOn(_, _)
StepsLeftOn(st, n) ==
    IF st = <<>> THEN 0 ELSE StepsLeftOf(Head(st), n) + StepsLeftOn(Tail(st), n)

\* an upper bound of the steps the stream has left
StepsLeft ==
    IF gpc = "created" THEN 1 + StepsOfCall(0, Cardinality(DOMAIN nodes))
    ELSE IF gpc \in {"running", "suspended"} THEN StepsLeftOn(stack, Len(original_graph))
    ELSE 0

\* every step of the stream uses up the bound
StepsLeftDecreases == StepsLeft' < StepsLeft

\* a stream that has not ended can take a step when the consumer asks for the next
\* triple: the guard of StartStream, of SearchStep or of ResumeAfterYield holds
NeverStuck ==
    /\ gpc \in {"created", "running", "suspended", "finished", "failed"}
    /\ gpc = "running" => (stack # <<>> /\ stack[Len(stack)].pc = "entry")
    /\ gpc = "suspended" => (stack # <<>> /\ stack[Len(stack)].pc = "yield")

RECURSIVE Pow2(_)
Pow2(n) == IF n = 0 THEN 1 ELSE 2 * Pow2(n - 1)

\* the d-th call of the recursion has decision index d - 1, at most N
IndexWithinOrder ==
    \A d \in 1 .. Len(stack) :
        /\ stack[d].current_decision_index = d - 1
        /\ stack[d].current_decision_index <= Len(original_graph)

YieldsBounded == yields # <<>> => Len(yields) <= Pow2(Len(original_graph))

\* a call that is not pruned and whose graph is not empty: at index N it returns without
\* yielding, below N it makes a call with the next index
StepsOrDeadEnd ==
    (gpc = "running" /\ stack # <<>>) =>
        LET top == stack[Len(stack)]
        IN  (/\ top.current_graph # <<>>
             /\ ~pruned(Len(top.selected_solution), current_sum_of(top.selected_solution)))
            => IF top.current_decision_index = Len(original_graph)
               THEN yields' = yields /\ gpc' # "suspended" /\ Len(stack') <= Len(stack)
               ELSE /\ Len(stack') = Len(stack) + 1
                    /\ stack'[Len(stack')].current_decision_index
                          = top.current_decision_index + 1
                    /\ yields' = yields

\* C17: a fully driven search terminates: each recursive call has the index of its
\* caller plus one, no call has an index above N, a call with a non-empty graph at
\* index N returns without yielding, at most 2^N triples are yielded, and the stream
\* ends: it is never stuck, and each of its steps uses up a bound on the steps left
C17_SearchTerminates ==
    /\ [](IndexWithinOrder /\ YieldsBounded /\ NeverStuck)
    /\ [][StepsOrDeadEnd /\ StepsLeftDecreases]_vars

\* a call at index N whose graph still holds an edge, not pruned: a dead end
C17_Witness ==
    /\ gpc = "running"
    /\ stack # <<>>
    /\ stack[Len(stack)].current_decision_index = Len(original_graph)
    /\ stack[Len(stack)].current_graph # <<>>
    /\ ~pruned(Len(stack[Len(stack)].selected_solution),
               current_sum_of(stack[Len(stack)].selected_solution))

\* ---------------------------------------------------------------------------------------
\* two generators of one searcher, consumed in turns

\* the graphs of the second generator: the graph of the first, or a single edge
SecondGraphs(E) == {E} \cup {F \in EdgeLists : Cardinality(F) = 1}

\* The consumer turns to the other generator.  A generator runs only inside next(), so
\* the turn is taken while the one driven so far is not started, stands at a yield or
\* has ended.  What belongs to a generator goes with it: its arguments and its frames
\* (lines 82, 99: nodes, edges, current_decision_index, selected_solution,
\* current_graph).  The fields of self (lines 70-76, 84-86, 96, 118-120) stay where they
\* are: both generators read and write the same.  Both are called with the same nodes
\* and weight function.
Switch ==
    /\ other.gpc # "none"
    /\ gpc # "running"
    /\ other' = [edges |-> edges, gpc |-> gpc, stack |-> stack, yields |-> yields,
                 err |-> err]
    /\ edges' = other.edges
    /\ gpc' = other.gpc
    /\ stack' = other.stack
    /\ yields' = other.yields
    /\ err' = other.err
    /\ UNCHANGED <<nodes, quiet, iterOrder, current_min_count, current_min_weight_sum,
                   current_solution, original_graph, search_order, weight_func_set,
                   seen, seenDrained>>
    /\ UNCHANGED rvars

InitTwoStreams ==
    /\ nodes \in NodeWeights(NodeIds)
    /\ edges \in EdgeLists
    /\ quiet \in BOOLEAN
    /\ iterOrder = Ascending
    /\ Fresh
    /\ NoRunner
    /\ \E F \in SecondGraphs(edges) :
           other = [edges |-> F, gpc |-> "created", stack |-> <<>>, yields |-> <<>>,
                    err |-> "none"]

NextTwoStreams ==
    \/ StartStream
    \/ SearchStep
    \/ ResumeAfterYield
    \/ Switch

SpecTwoStreams == InitTwoStreams /\ [][NextTwoStreams]_vars

\* C18: two generators of one searcher, consumed in any interleaving, each yield what
\* they yield alone: each stays strictly improving and valid, ends with an optimal
\* cover of its own graph, and two generators for the same graph yield the same sequence
C18_InterleavedStreamsIndependent ==
    /\ YieldsStrictlyImprove
    /\ \A k \in 1 .. Len(yields) : ValidTriple(yields[k])
    /\ (gpc = "finished" /\ EdgeConnected) =>
           /\ yields # <<>>
           /\ Last(yields)[2] = BruteMinCount
           /\ Last(yields)[3] = BruteMinWeight
    /\ (gpc = "finished" /\ other.gpc = "finished" /\ other.edges = edges) =>
           yields = other.yields

\* ---------------------------------------------------------------------------------------
\* the order among nodes of equal degree and weight

PositionIn(s, x) == CHOOSE k \in 1 .. Len(s) : s[k] = x

\* the key of line 37 for the node x of the caller's input
KeyOf(x) == sort_key(Cardinality(adjacency(edges, x)), nodes[x])

\* two different nodes of the visitation order with the same degree and weight
Tied(x, y) ==
    /\ x \in Range(search_order) /\ y \in Range(search_order)
    /\ x # y
    /\ KeyOf(x) = KeyOf(y)

\* C19 (as amended): nodes of equal degree and weight are visited in the order in which
\* the iteration of the set of edge tuples (lines 33-36) first meets them, which the
\* caller's input does not determine; nodes of different keys in the order of their keys
C19_TiesInIterationOrder ==
    gpc = "built" =>
        \A x, y \in Range(search_order) :
            PositionIn(search_order, x) < PositionIn(search_order, y) =>
                \/ TupleLess(KeyOf(x), KeyOf(y))
                \/ Tied(x, y) /\ PositionIn(iterOrder, x) < PositionIn(iterOrder, y)

\* two tied nodes visited against the order of the caller's input
C19_Witness ==
    /\ gpc = "built"
    /\ \E x, y \in Range(search_order) :
           /\ Tied(x, y)
           /\ x < y
           /\ PositionIn(search_order, y) < PositionIn(search_order, x)

\* C19 (as stated): nodes of equal degree and weight are visited in input order, the
\* order of their indices in the caller's nodes
C19_TiesInInputOrder ==
    gpc = "built" =>
        \A x, y \in Range(search_order) :
            (Tied(x, y) /\ x < y) =>
                PositionIn(search_order, x) < PositionIn(search_order, y)

\* ---------------------------------------------------------------------------------------
\* calls with an empty node list or with an edge to an index that is no node

MisuseNodes == 2
MisuseEdges == 1

\* the indices an edge may name: beyond both ends of the longest node list
MisuseIndices == (0 - MisuseNodes - 1) .. MisuseNodes

MisuseOrder == [k \in 1 .. (2 * MisuseNodes + 2) |-> k - MisuseNodes - 2]

InitMisuse ==
    /\ \E n \in 0 .. MisuseNodes : nodes \in NodeWeights(0 .. (n - 1))
    /\ edges \in {E \in SUBSET {e \in MisuseIndices \X MisuseIndices : e[1] < e[2]} :
                     Cardinality(E) <= MisuseEdges}
    /\ quiet \in BOOLEAN
    /\ iterOrder = MisuseOrder
    /\ Fresh
    /\ NoRunner
    /\ other = NoOtherStream

NextMisuse ==
    \/ StartStream
    \/ SearchStep
    \/ ResumeAfterYield

SpecMisuse == InitMisuse /\ [][NextMisuse]_vars

EndpointsOf(E) == {e[1] : e \in E} \cup {e[2] : e \in E}

EmptyInput == DOMAIN nodes = {} /\ edges = {}

\* an index that is no position of the list, counted from either end
BeyondTheList(i) == i >= Cardinality(DOMAIN nodes) \/ i < 0 - Cardinality(DOMAIN nodes)

\* the first next() has been made
Consumed == gpc # "created"

EmptyCoverOnly == <<<< <<>>, 0, 0 >>>>

\* C20 (as amended): an edge that names an index beyond the node list ends the first
\* consumption with IndexError and no triple, check enabled or not; a negative index
\* within the length of the list is taken from the end of the list and is not reported;
\* the empty input ends the first consumption with RuntimeError only if the component
\* check is enabled, and yields the triple of the empty cover, without error, if not
C20_MisuseOutcomes ==
    Consumed =>
        /\ (\E i \in EndpointsOf(edges) : BeyondTheList(i)) <=> err = "IndexError"
        /\ err # "none" => (gpc = "failed" /\ yields = <<>>)
        /\ (EmptyInput /\ ~quiet) => err = "RuntimeError"
        /\ (EmptyInput /\ quiet) =>
               /\ err = "none"
               /\ gpc = "finished" => yields = EmptyCoverOnly
        /\ quiet => err \in {"none", "IndexError"}

\* the empty input with the check disabled: one triple, sooner or later the end, no error
C20_Witness ==
    /\ EmptyInput
    /\ quiet
    /\ gpc = "finished"
    /\ yields = EmptyCoverOnly

\* C20 (as stated): the empty input, and an edge that names an index that is no node,
\* end the first consumption with an error and without a triple, check enabled or not
C20_MisuseIsUsageError ==
    (Consumed /\ (EmptyInput \/ \E i \in EndpointsOf(edges) : i \notin DOMAIN nodes)) =>
        /\ gpc = "failed"
        /\ err # "none"
        /\ yields = <<>>

====
